---------------------------- MODULE Spec2Model ----------------------------
(* A model of zo.py: the citation scanner (latex_cites), the bibliography *)
(* splitter (bib_strip), make, the report printer, the filename-to-key    *)
(* convention, the field lookups and the note files.                       *)
(* Text is a sequence of one-character strings; a file is a sequence of    *)
(* lines, each line carrying its own line terminator as readline() does.   *)
EXTENDS Integers, Sequences, FiniteSets, TLC

VARIABLES
    \* bib_strip
    parent_bib, entries, added_entries, child_bib, pos, line, spc, required0,
    \* latex_cites
    project, tex_idx, pending, cites, warnings, cpc,
    \* make
    child_file, runs, mpc,
    \* _printer
    things, msg, out, ppc,
    \* filename_to_bibnick
    filename, bibnick, npc,
    \* bib_lookup, bib_lookup_many
    db, l_nick, l_what, many_result, one_result, lpc,
    \* edit_notes
    notes, env, nlog

stripVars == <<parent_bib, entries, added_entries, child_bib, pos, line, spc, required0>>
citesVars == <<project, tex_idx, pending, cites, warnings, cpc>>
makeVars == <<child_file, runs, mpc>>
printerVars == <<things, msg, out, ppc>>
nickVars == <<filename, bibnick, npc>>
lookupVars == <<db, l_nick, l_what, many_result, one_result, lpc>>
notesVars == <<notes, env, nlog>>
vars == <<stripVars, citesVars, makeVars, printerVars, nickVars, lookupVars, notesVars>>

\* what the steps of one function leave alone
restVars == <<printerVars, nickVars, lookupVars, notesVars>>
notStrip == <<citesVars, makeVars, restVars>>
notCites == <<stripVars, makeVars, restVars>>
progVars == <<stripVars, citesVars, makeVars>>

-----------------------------------------------------------------------------
(* Bounds *)
MaxLines == 3
MaxSegs == 3
MaxMakeLines == 3
MaxRuns == 2
MaxThings == 3
MaxMsg == 2
MaxName == 4
MaxWhat == 2

-----------------------------------------------------------------------------
(* Python string primitives *)

NL == "\n"

\* the characters str.strip() removes
Whitespace == {" ", "\n", "\t", "\r"}

RECURSIVE LStrip(_)
LStrip(s) ==
    IF s = <<>> THEN <<>>
    ELSE IF Head(s) \in Whitespace THEN LStrip(Tail(s)) ELSE s

RECURSIVE RStrip(_)
RStrip(s) ==
    IF s = <<>> THEN <<>>
    ELSE IF s[Len(s)] \in Whitespace THEN RStrip(SubSeq(s, 1, Len(s) - 1)) ELSE s

\* str.strip()
StripWs(s) == RStrip(LStrip(s))

\* str.split(sep) for a one-character separator: always at least one piece
RECURSIVE SplitAcc(_, _, _)
SplitAcc(s, sep, cur) ==
    IF s = <<>> THEN <<cur>>
    ELSE IF Head(s) = sep THEN <<cur>> \o SplitAcc(Tail(s), sep, <<>>)
    ELSE SplitAcc(Tail(s), sep, Append(cur, Head(s)))

Split(s, sep) == SplitAcc(s, sep, <<>>)

\* "".join(pieces)
RECURSIVE Concat(_)
Concat(ss) == IF ss = <<>> THEN <<>> ELSE Head(ss) \o Concat(Tail(ss))

\* the lines of a text, as iterating a file yields them (terminators kept)
RECURSIVE LinesAcc(_, _)
LinesAcc(s, cur) ==
    IF s = <<>> THEN (IF cur = <<>> THEN <<>> ELSE <<cur>>)
    ELSE IF Head(s) = NL THEN <<Append(cur, NL)>> \o LinesAcc(Tail(s), <<>>)
    ELSE LinesAcc(Tail(s), Append(cur, Head(s)))

LinesOf(s) == LinesAcc(s, <<>>)

-----------------------------------------------------------------------------
(* bib_strip *)

\* f.readline(): the next line with its terminator, "" at end of file
ReadLine(f, i) == IF i > Len(f) THEN <<>> ELSE f[i]

\* line.strip() != "" and line.strip()[0] == '@'
IsAtLine(l) == StripWs(l) # <<>> /\ StripWs(l)[1] = "@"

\* line.split('{')[1] raises IndexError when the line holds no '{'
HasBrace(l) == Len(Split(l, "{")) >= 2

\* line.split('{')[1].split(',')[0].strip(); KeyOfUntrimmed is the variant
\* that leaves out the strip()
KeyOfUntrimmed(l) == Split(Split(l, "{")[2], ",")[1]
KeyOf(l) == StripWs(Split(Split(l, "{")[2], ",")[1])

\* the inner loop's condition: line.strip() != "" and line.strip()[0] != '@'
InBlock(l) == StripWs(l) # <<>> /\ StripWs(l)[1] # "@"

\* line.strip()[0] != '#'
Kept(l) == StripWs(l)[1] # "#"

\* the entries.remove(entry) of a match; RemoveKeeping is the variant that
\* leaves the key in
RemoveKeeping(es, k) == es
Remove(es, k) == es \ {k}

\* added_entries.add(entry); AddOverwriting is the variant that assigns
AddOverwriting(added, k) == {k}
Add(added, k) == added \cup {k}

\* the outer loop's match test
Matches(l, es) == IsAtLine(l) /\ KeyOf(l) \in es

\* added_entries = set(); child_bib = ""; open; line = f.readline()
StripOpen ==
    /\ spc = "start"
    /\ added_entries' = {}
    /\ child_bib' = <<>>
    /\ line' = ReadLine(parent_bib, 1)
    /\ pos' = 2
    /\ spc' = "outer"
    /\ UNCHANGED <<parent_bib, entries, required0>>
    /\ UNCHANGED notStrip

\* an '@' line without '{': line.split('{')[1] raises IndexError
StripCrash ==
    /\ spc = "outer"
    /\ line # <<>>
    /\ IsAtLine(line)
    /\ ~HasBrace(line)
    /\ spc' = "error"
    /\ UNCHANGED <<parent_bib, entries, added_entries, child_bib, pos, line, required0>>
    /\ UNCHANGED notStrip

\* the if branch: a head line whose key is required
StripMatch ==
    /\ spc = "outer"
    /\ line # <<>>
    /\ IsAtLine(line) => HasBrace(line)
    /\ Matches(line, entries)
    /\ entries' = Remove(entries, KeyOf(line))
    /\ added_entries' = Add(added_entries, KeyOf(line))
    /\ child_bib' = child_bib \o line
    /\ line' = ReadLine(parent_bib, pos)
    /\ pos' = pos + 1
    /\ spc' = "inner"
    /\ UNCHANGED <<parent_bib, required0>>
    /\ UNCHANGED notStrip

\* the else branch: line = f.readline()
StripSkip ==
    /\ spc = "outer"
    /\ line # <<>>
    /\ IsAtLine(line) => HasBrace(line)
    /\ ~Matches(line, entries)
    /\ line' = ReadLine(parent_bib, pos)
    /\ pos' = pos + 1
    /\ UNCHANGED <<parent_bib, entries, added_entries, child_bib, spc, required0>>
    /\ UNCHANGED notStrip

\* inner loop body, a kept line: child_bib += line; line = f.readline()
StripCopy ==
    /\ spc = "inner"
    /\ InBlock(line)
    /\ Kept(line)
    /\ child_bib' = child_bib \o line
    /\ line' = ReadLine(parent_bib, pos)
    /\ pos' = pos + 1
    /\ UNCHANGED <<parent_bib, entries, added_entries, spc, required0>>
    /\ UNCHANGED notStrip

\* inner loop body, a '#' line: line = f.readline()
StripDropComment ==
    /\ spc = "inner"
    /\ InBlock(line)
    /\ ~Kept(line)
    /\ line' = ReadLine(parent_bib, pos)
    /\ pos' = pos + 1
    /\ UNCHANGED <<parent_bib, entries, added_entries, child_bib, spc, required0>>
    /\ UNCHANGED notStrip

\* inner loop exit: child_bib += "\n"
StripEndBlock ==
    /\ spc = "inner"
    /\ ~InBlock(line)
    /\ child_bib' = child_bib \o <<NL>>
    /\ spc' = "outer"
    /\ UNCHANGED <<parent_bib, entries, added_entries, pos, line, required0>>
    /\ UNCHANGED notStrip

\* while line != "" fails: missing_entries = entries; return
StripReturn ==
    /\ spc = "outer"
    /\ line = <<>>
    /\ spc' = "done"
    /\ UNCHANGED <<parent_bib, entries, added_entries, child_bib, pos, line, required0>>
    /\ UNCHANGED notStrip

StripStep ==
    \/ StripOpen
    \/ StripCrash
    \/ StripMatch
    \/ StripSkip
    \/ StripCopy
    \/ StripDropComment
    \/ StripEndBlock
    \/ StripReturn

\* the line bodies parent files are built from
LineSet ==
    { <<"@", "m", "{", "a", ",">>,
      <<" ", "@", "m", "{", " ", "a", " ", ",", "x">>,
      <<"@", "m", "{", "b", ",", "}">>,
      <<"@", "x">>,
      <<>>,
      <<" ", "#">>,
      <<"t">>,
      <<"}">> }

KeyA == <<"a">>
KeyB == <<"b">>
KeyC == <<"c">>
Keys == {KeyA, KeyB, KeyC}

RECURSIVE SeqsUpTo(_, _)
SeqsUpTo(S, n) ==
    IF n = 0 THEN {<<>>}
    ELSE LET shorter == SeqsUpTo(S, n - 1)
         IN shorter \cup {Append(s, x) : s \in {q \in shorter : Len(q) = n - 1}, x \in S}

\* a file of these line bodies; the last line may lack its terminator
Terminated(bodies, finalNL) ==
    [i \in 1..Len(bodies) |->
        IF i < Len(bodies) \/ finalNL THEN Append(bodies[i], NL) ELSE bodies[i]]

ParentFiles(n) ==
    {Terminated(b, nl) : b \in SeqsUpTo(LineSet, n), nl \in BOOLEAN}
      \ {f \in {Terminated(b, FALSE) : b \in SeqsUpTo(LineSet, n)} :
              f # <<>> /\ f[Len(f)] = <<>>}

-----------------------------------------------------------------------------
(* latex_cites *)

\* the two command names of citere, each one token of the text
Cite == "\\cite"
FullCite == "\\fullcite"
CiteCmds == {Cite, FullCite}

\* "".join(line.strip() for line in f)
RECURSIVE StripEach(_)
StripEach(ls) == IF ls = <<>> THEN <<>> ELSE <<StripWs(Head(ls))>> \o StripEach(Tail(ls))
JoinStripped(text) == Concat(StripEach(LinesOf(text)))

\* re.findall(citere, lines): the second group of every match, left to right,
\* not overlapping; (.*?)\} ends at the first '}' after the '{'
RECURSIVE FindAllFrom(_, _)
FindAllFrom(s, i) ==
    IF i > Len(s) THEN <<>>
    ELSE IF /\ s[i] \in CiteCmds
            /\ i + 1 <= Len(s)
            /\ s[i + 1] = "{"
            /\ \E j \in (i + 2)..Len(s) : s[j] = "}"
         THEN LET close == CHOOSE j \in (i + 2)..Len(s) :
                              s[j] = "}" /\ \A k \in (i + 2)..(j - 1) : s[k] # "}"
              IN <<SubSeq(s, i + 2, close - 1)>> \o FindAllFrom(s, close + 1)
         ELSE FindAllFrom(s, i + 1)

FindAll(s) == FindAllFrom(s, 1)

\* if x[1]: a non-empty argument list; TruthyAlways is the variant without
\* the test
TruthyAlways(x) == TRUE
Truthy(x) == x # <<>>

\* set([x.strip() for x in x[1].split(',')])
PiecesOf(x) == LET ps == Split(x, ",") IN {StripWs(ps[i]) : i \in 1..Len(ps)}

\* cites = set(), and the first tex file is next
CitesBegin ==
    /\ cpc = "start"
    /\ cites' = {}
    /\ tex_idx' = 1
    /\ pending' = <<>>
    /\ cpc' = "files"
    /\ UNCHANGED <<project, warnings>>
    /\ UNCHANGED notCites

\* open the next file, join its stripped lines, find every citation command
CitesOpen ==
    /\ cpc = "files"
    /\ tex_idx <= Len(project)
    /\ pending' = FindAll(JoinStripped(project[tex_idx]))
    /\ cpc' = "matches"
    /\ UNCHANGED <<project, tex_idx, cites, warnings>>
    /\ UNCHANGED notCites

\* a match with a non-empty argument list: its pieces join cites
CitesAdd ==
    /\ cpc = "matches"
    /\ pending # <<>>
    /\ Truthy(Head(pending))
    /\ cites' = cites \cup PiecesOf(Head(pending))
    /\ pending' = Tail(pending)
    /\ UNCHANGED <<project, tex_idx, warnings, cpc>>
    /\ UNCHANGED notCites

\* a match with an empty argument list: warnings.warn
CitesWarn ==
    /\ cpc = "matches"
    /\ pending # <<>>
    /\ ~Truthy(Head(pending))
    /\ warnings' = warnings + 1
    /\ pending' = Tail(pending)
    /\ UNCHANGED <<project, tex_idx, cites, cpc>>
    /\ UNCHANGED notCites

\* the file's matches are done: on to the next file
CitesClose ==
    /\ cpc = "matches"
    /\ pending = <<>>
    /\ tex_idx' = tex_idx + 1
    /\ cpc' = "files"
    /\ UNCHANGED <<project, pending, cites, warnings>>
    /\ UNCHANGED notCites

\* return cites
CitesReturn ==
    /\ cpc = "files"
    /\ tex_idx > Len(project)
    /\ cpc' = "done"
    /\ UNCHANGED <<project, tex_idx, pending, cites, warnings>>
    /\ UNCHANGED notCites

CitesStep ==
    \/ CitesBegin
    \/ CitesOpen
    \/ CitesAdd
    \/ CitesWarn
    \/ CitesClose
    \/ CitesReturn

\* the pieces tex files are built from; FileSep ends a file
FileSep == "<eof>"
TexSegs ==
    { <<Cite, "{", "}">>,
      <<FullCite, "{", "}">>,
      <<Cite, "{", "a", "}">>,
      <<Cite, "{">>,
      <<"}">>,
      <<",">>,
      <<" ">>,
      <<"a">>,
      <<NL>>,
      <<FileSep>> }

\* the tex files of a project, in the order the scan meets them
ProjectOf(segs) == Split(Concat(segs), FileSep)

IdleCites ==
    /\ project = <<>>
    /\ tex_idx = 1
    /\ pending = <<>>
    /\ cites = {}
    /\ warnings = 0
    /\ cpc = "idle"

-----------------------------------------------------------------------------
(* bib_nicknames: the keys bibtexparser.load finds in a file *)

\* One pass over the text. An entry is '@', a type, '{', a key, then either
\* '}' or ',' and fields up to the matching '}'. Text outside entries and
\* @comment blocks are comments. A file that ends inside an entry, or holds
\* an '@' where a field is expected, is malformed and the load raises.
RECURSIVE ParseAt(_, _, _, _, _, _, _)
ParseAt(s, i, mode, depth, cur, key, keys) ==
    IF i > Len(s) THEN [ok |-> mode = "junk", keys |-> keys]
    ELSE LET c == s[i] IN
      CASE mode = "junk" ->
             IF c = "@" THEN ParseAt(s, i + 1, "type", 0, <<>>, <<>>, keys)
             ELSE ParseAt(s, i + 1, "junk", 0, <<>>, <<>>, keys)
        [] mode = "type" ->
             IF c = "{"
             THEN (IF StripWs(cur) = <<>> THEN [ok |-> FALSE, keys |-> keys]
                   ELSE IF StripWs(cur) = <<"c", "o", "m", "m", "e", "n", "t">>
                   THEN ParseAt(s, i + 1, "junk", 0, <<>>, <<>>, keys)
                   ELSE ParseAt(s, i + 1, "key", 1, <<>>, <<>>, keys))
             ELSE IF c \in {"@", "}", ","} THEN [ok |-> FALSE, keys |-> keys]
             ELSE ParseAt(s, i + 1, "type", 0, Append(cur, c), <<>>, keys)
        [] mode = "key" ->
             IF c = "," THEN ParseAt(s, i + 1, "body", 1, <<>>, StripWs(cur), keys)
             ELSE IF c = "}"
             THEN ParseAt(s, i + 1, "junk", 0, <<>>, <<>>, keys \cup {StripWs(cur)})
             ELSE IF c \in {"@", "{"} THEN [ok |-> FALSE, keys |-> keys]
             ELSE ParseAt(s, i + 1, "key", 1, Append(cur, c), <<>>, keys)
        [] OTHER ->
             IF c = "{" THEN ParseAt(s, i + 1, "body", depth + 1, <<>>, key, keys)
             ELSE IF c = "}"
             THEN (IF depth = 1
                   THEN ParseAt(s, i + 1, "junk", 0, <<>>, <<>>, keys \cup {key})
                   ELSE ParseAt(s, i + 1, "body", depth - 1, <<>>, key, keys))
             ELSE IF c = "@" /\ depth = 1 THEN [ok |-> FALSE, keys |-> keys]
             ELSE ParseAt(s, i + 1, "body", depth, <<>>, key, keys)

BibLoad(text) == ParseAt(text, 1, "junk", 0, <<>>, <<>>, {})

\* set(entry['ID'] for entry in bib_database.entries)
BibNicknames(text) == BibLoad(text).keys

-----------------------------------------------------------------------------
(* make *)

\* make(project, parent, child) is called: cites = latex_cites(project)
MakeCall ==
    /\ mpc = "idle"
    /\ runs < MaxRuns
    /\ mpc' = "cites"
    /\ cpc' = "start"
    /\ UNCHANGED <<project, tex_idx, pending, cites, warnings>>
    /\ UNCHANGED <<child_file, runs>>
    /\ UNCHANGED stripVars
    /\ UNCHANGED restVars

\* local_refs = bib_nicknames(child) raises on a malformed child
MakeLoadError ==
    /\ mpc = "cites"
    /\ cpc = "done"
    /\ ~BibLoad(child_file).ok
    /\ mpc' = "error"
    /\ UNCHANGED <<child_file, runs>>
    /\ UNCHANGED <<stripVars, citesVars>>
    /\ UNCHANGED restVars

\* local_refs = bib_nicknames(child); required_refs = cites - local_refs;
\* bib_strip(parent, required_refs) is entered
MakeReconcile ==
    /\ mpc = "cites"
    /\ cpc = "done"
    /\ BibLoad(child_file).ok
    /\ entries' = cites \ BibNicknames(child_file)
    /\ required0' = entries'
    /\ spc' = "start"
    /\ mpc' = "strip"
    /\ UNCHANGED <<parent_bib, added_entries, child_bib, pos, line>>
    /\ UNCHANGED <<child_file, runs>>
    /\ UNCHANGED citesVars
    /\ UNCHANGED restVars

\* bib_strip raised: make ends with the exception, the child untouched
MakeStripError ==
    /\ mpc = "strip"
    /\ spc = "error"
    /\ mpc' = "error"
    /\ UNCHANGED <<child_file, runs>>
    /\ UNCHANGED <<stripVars, citesVars>>
    /\ UNCHANGED restVars

\* with open(child, 'a') as f: f.write(append_string); the report that
\* follows goes to stdout and changes nothing
MakeAppend ==
    /\ mpc = "strip"
    /\ spc = "done"
    /\ child_file' = child_file \o child_bib
    /\ runs' = runs + 1
    /\ mpc' = "idle"
    /\ UNCHANGED <<stripVars, citesVars>>
    /\ UNCHANGED restVars

MakeStep ==
    \/ MakeCall
    \/ MakeLoadError
    \/ MakeReconcile
    \/ MakeStripError
    \/ MakeAppend

IdleMake ==
    /\ child_file = <<>>
    /\ runs = 0
    /\ mpc = "idle"

IdleStrip ==
    /\ parent_bib = <<>>
    /\ entries = {}
    /\ required0 = {}
    /\ added_entries = {}
    /\ child_bib = <<>>
    /\ pos = 1
    /\ line = <<>>
    /\ spc = "idle"

-----------------------------------------------------------------------------
(* _printer *)

\* the code point of a character, which orders Python strings
CharCode(c) ==
    CASE c = "B" -> 66
      [] c = "a" -> 97
      [] c = "b" -> 98
      [] OTHER -> 0

\* x < y on strings
RECURSIVE StrLess(_, _)
StrLess(x, y) ==
    IF y = <<>> THEN FALSE
    ELSE IF x = <<>> THEN TRUE
    ELSE IF Head(x) = Head(y) THEN StrLess(Tail(x), Tail(y))
    ELSE CharCode(Head(x)) < CharCode(Head(y))

\* sorted(things): a stable sort of the items
RECURSIVE InsertSorted(_, _)
InsertSorted(x, ss) ==
    IF ss = <<>> THEN <<x>>
    ELSE IF StrLess(x, Head(ss)) THEN <<x>> \o ss
    ELSE <<Head(ss)>> \o InsertSorted(x, Tail(ss))

RECURSIVE SortedFrom(_, _)
SortedFrom(ts, acc) ==
    IF ts = <<>> THEN acc ELSE SortedFrom(Tail(ts), InsertSorted(Head(ts), acc))

\* SortedAsGiven is the variant that enumerates things unsorted
SortedAsGiven(ts) == ts
Sorted(ts) == SortedFrom(ts, <<>>)

\* "{0}".format(n) for n >= 0
Digits == <<"0", "1", "2", "3", "4", "5", "6", "7", "8", "9">>
RECURSIVE Decimal(_)
Decimal(n) ==
    IF n < 10 THEN <<Digits[n + 1]>>
    ELSE Decimal(n \div 10) \o <<Digits[(n % 10) + 1]>>

\* "=" * n
RECURSIVE Repeat(_, _)
Repeat(c, n) == IF n <= 0 THEN <<>> ELSE <<c>> \o Repeat(c, n - 1)

\* for i, thing in enumerate(sorted(things)): out += "{0}. {1}\n".format(i + 1, thing)
RECURSIVE Enumerated(_, _)
Enumerated(ss, i) ==
    IF i >= Len(ss) THEN <<>>
    ELSE Decimal(i + 1) \o <<".", " ">> \o ss[i + 1] \o <<NL>> \o Enumerated(ss, i + 1)

Printer(ts, m) ==
    IF Len(ts) > 0
    THEN m \o <<NL>> \o Repeat("=", Len(m)) \o <<NL>> \o Enumerated(Sorted(ts), 0)
    ELSE <<>>

PrinterCall ==
    /\ ppc = "call"
    /\ out' = Printer(things, msg)
    /\ ppc' = "done"
    /\ UNCHANGED <<things, msg>>
    /\ UNCHANGED <<progVars, nickVars, lookupVars, notesVars>>

\* the items and header characters reports are built from
ItemSet == { <<"a">>, <<"b">>, <<"B">>, <<"a", "b">> }
MsgChars == {"m", NL}

IdlePrinter ==
    /\ things = <<>>
    /\ msg = <<>>
    /\ out = <<>>
    /\ ppc = "idle"

-----------------------------------------------------------------------------
(* filename_to_bibnick *)

\* '.' of the pattern matches any character but a line break
Dot(c) == c # NL

\* the greedy (.+) then \]: the last ']' from j down that a run of '.'
\* characters starting right after the '[' at i reaches; 0 when none
RECURSIVE CloseFrom(_, _, _)
CloseFrom(f, i, j) ==
    IF j < i + 2 THEN 0
    ELSE IF f[j] = "]" /\ \A k \in (i + 1)..(j - 1) : Dot(f[k]) THEN j
    ELSE CloseFrom(f, i, j - 1)

\* the lazy variant: the first such ']'
RECURSIVE CloseUpFrom(_, _, _)
CloseUpFrom(f, i, j) ==
    IF j > Len(f) THEN 0
    ELSE IF f[j] = "]" /\ \A k \in (i + 1)..(j - 1) : Dot(f[k]) THEN j
    ELSE CloseUpFrom(f, i, j + 1)

CloseOfLazy(f, i) == CloseUpFrom(f, i, i + 2)
CloseOf(f, i) == CloseFrom(f, i, Len(f))

\* re.search("\[(.+)\]", filename): the leftmost match, as <<i, j>>, <<0, 0>> when none
RECURSIVE SearchFrom(_, _)
SearchFrom(f, i) ==
    IF i > Len(f) THEN <<0, 0>>
    ELSE IF f[i] = "[" /\ CloseOf(f, i) # 0 THEN <<i, CloseOf(f, i)>>
    ELSE SearchFrom(f, i + 1)

FilenameToBibnick(f) ==
    LET m == SearchFrom(f, 1)
    IN IF m # <<0, 0>> THEN SubSeq(f, m[1] + 1, m[2] - 1) ELSE f

NickCall ==
    /\ npc = "call"
    /\ bibnick' = FilenameToBibnick(filename)
    /\ npc' = "done"
    /\ UNCHANGED filename
    /\ UNCHANGED <<progVars, printerVars, lookupVars, notesVars>>

NameChars == {"[", "]", "x", ".", NL}

IdleNick ==
    /\ filename = <<>>
    /\ bibnick = <<>>
    /\ npc = "idle"

-----------------------------------------------------------------------------
(* bib_lookup, bib_lookup_many *)

\* sanitize(s): line breaks, tabs and carriage returns removed
RECURSIVE Sanitize(_)
Sanitize(v) ==
    IF v = <<>> THEN <<>>
    ELSE (IF Head(v) \in {"\n", "\t", "\r"} THEN <<>> ELSE <<Head(v)>>) \o Sanitize(Tail(v))

\* result[w] = v
Put(result, w, v) == (w :> v) @@ result

\* for w in what: if w in entry: result[w] = sanitize(entry[w])
RECURSIVE CopyPresent(_, _, _)
CopyPresent(entry, what, result) ==
    IF what = <<>> THEN result
    ELSE CopyPresent(entry, Tail(what),
                     IF Head(what) \in DOMAIN entry
                     THEN Put(result, Head(what), Sanitize(entry[Head(what)]))
                     ELSE result)

\* for w in what: if w not in result: result[w] = ""
RECURSIVE FillAbsentFrom(_, _)
FillAbsentFrom(what, result) ==
    IF what = <<>> THEN result
    ELSE FillAbsentFrom(Tail(what),
                        IF Head(what) \notin DOMAIN result
                        THEN Put(result, Head(what), <<>>)
                        ELSE result)

\* FillAbsentSkipped is the variant without the second loop
FillAbsentSkipped(what, result) == result
FillAbsent(what, result) == FillAbsentFrom(what, result)

NoFields == [w \in {} |-> <<>>]

BibLookupMany(d, nick, what) ==
    FillAbsent(what, IF nick \in DOMAIN d THEN CopyPresent(d[nick], what, NoFields) ELSE NoFields)

\* None, or the sanitized value
NoneValue == [some |-> FALSE, val |-> <<>>]

BibLookup(d, nick, w) ==
    IF nick \in DOMAIN d /\ w \in DOMAIN d[nick]
    THEN [some |-> TRUE, val |-> Sanitize(d[nick][w])]
    ELSE NoneValue

WhatFields == {"title", "year", "author"}
EntryFields == {"title", "year"}
FieldValues == { <<>>, <<"v">>, <<"v", NL>> }
BibKeys == {"k1", "k2"}
Nicks == {"k1", "k2", "k3"}
EntrySet == UNION {[F -> FieldValues] : F \in SUBSET EntryFields}
Databases == UNION {[K -> EntrySet] : K \in SUBSET BibKeys}

LookupManyCall ==
    /\ lpc = "call"
    /\ \E n \in Nicks, what \in SeqsUpTo(WhatFields, MaxWhat) :
          /\ l_nick' = n
          /\ l_what' = what
          /\ many_result' = BibLookupMany(db, n, what)
    /\ lpc' = "many"
    /\ UNCHANGED <<db, one_result>>
    /\ UNCHANGED <<progVars, printerVars, nickVars, notesVars>>

LookupCall ==
    /\ lpc = "call"
    /\ \E n \in Nicks, w \in WhatFields :
          /\ l_nick' = n
          /\ l_what' = <<w>>
          /\ one_result' = BibLookup(db, n, w)
    /\ lpc' = "one"
    /\ UNCHANGED <<db, many_result>>
    /\ UNCHANGED <<progVars, printerVars, nickVars, notesVars>>

IdleLookup ==
    /\ db = NoFields
    /\ l_nick = "k1"
    /\ l_what = <<>>
    /\ many_result = NoFields
    /\ one_result = NoneValue
    /\ lpc = "idle"

-----------------------------------------------------------------------------
(* edit_notes, init_notes_file *)

Absent == [kind |-> "absent"]

\* os.path.exists(notes); NotesExistNever is the variant that always
\* initialises the file
NotesExistNever(files, n) == FALSE
NotesExist(files, n) == files[n] # Absent

\* NOTE_FILE_TEMPLATE.format(**data), data from
\* bib_lookup_many(bib, nickname, ['title', 'year', 'author']) and the key
TemplateFor(d, n) ==
    LET data == BibLookupMany(d, n, <<"title", "year", "author">>)
    IN [kind |-> "template", bibnick |-> n,
        title |-> data["title"], author |-> data["author"], year |-> data["year"]]

\* the command edit_notes builds: GUI_EDITOR first, then EDITOR, then xdg-open
CommandFor(e) ==
    IF e.gui THEN "gui-editor" ELSE IF e.editor THEN "editor" ELSE "xdg-open"

\* edit_notes(nickname): the notes file is created from the template when
\* it does not exist, then the editor is started on it
EditNotes ==
    \E n \in Nicks :
        /\ notes' = IF NotesExist(notes, n) THEN notes
                    ELSE [notes EXCEPT ![n] = TemplateFor(db, n)]
        /\ nlog' = [op |-> "edit_notes", nick |-> n, cmd |-> CommandFor(env)]
        /\ UNCHANGED <<env, db, l_nick, l_what, many_result, one_result, lpc>>
        /\ UNCHANGED <<progVars, printerVars, nickVars>>

\* the user saves a new text from the editor edit_notes started
EditorSave ==
    \E n \in Nicks, text \in {<<"u">>, <<"w">>} :
        /\ nlog.op # "none"
        /\ notes[n] # Absent
        /\ notes' = [notes EXCEPT ![n] = [kind |-> "user", text |-> text]]
        /\ nlog' = [op |-> "editor", nick |-> n, cmd |-> nlog.cmd]
        /\ UNCHANGED <<env, db, l_nick, l_what, many_result, one_result, lpc>>
        /\ UNCHANGED <<progVars, printerVars, nickVars>>

NoteDatabases ==
    { NoFields,
      [k \in {"k1"} |-> [f \in {"title"} |-> <<"v", NL>>]],
      [k \in {"k1", "k2"} |-> [f \in {"title", "year"} |-> <<"v">>]] }

IdleNotes ==
    /\ notes = [n \in Nicks |-> Absent]
    /\ env = [gui |-> FALSE, editor |-> FALSE]
    /\ nlog = [op |-> "none", nick |-> "k1", cmd |-> "none"]

IdleRest ==
    /\ IdlePrinter
    /\ IdleNick
    /\ IdleLookup
    /\ IdleNotes

-----------------------------------------------------------------------------
(* Specifications *)

\* bib_strip alone, on every parent file and required set within the bounds
InitStrip ==
    /\ parent_bib \in ParentFiles(MaxLines)
    /\ entries \in SUBSET Keys
    /\ required0 = entries
    /\ added_entries = {}
    /\ child_bib = <<>>
    /\ pos = 1
    /\ line = <<>>
    /\ spc = "start"
    /\ IdleCites
    /\ IdleMake
    /\ IdleRest

NextStrip == StripStep

SpecStrip == InitStrip /\ [][NextStrip]_vars

\* latex_cites alone, on every project within the bounds
InitCites ==
    /\ project \in {ProjectOf(segs) : segs \in SeqsUpTo(TexSegs, MaxSegs)}
    /\ tex_idx = 1
    /\ pending = <<>>
    /\ cites = {}
    /\ warnings = 0
    /\ cpc = "start"
    /\ IdleStrip
    /\ IdleMake
    /\ IdleRest

NextCites == CitesStep

SpecCites == InitCites /\ [][NextCites]_vars

\* make, run MaxRuns times in a row on the same project, parent and child
CommentLine == <<"@", "c", "o", "m", "m", "e", "n", "t", "{", "a", ",", "}">>
MakeLineSet == (LineSet \ {<<" ", "@", "m", "{", " ", "a", " ", ",", "x">>}) \cup {CommentLine}
MakeParents ==
    {Terminated(b, TRUE) : b \in SeqsUpTo(MakeLineSet, MaxMakeLines)}
MakeProjects ==
    { <<<<Cite, "{", "a", "}">>>>,
      <<<<Cite, "{", "}", FullCite, "{", "a", ",", " ", "b", "}">>>>,
      <<<<Cite, "{", "c", "}">>, <<Cite, "{", "b", "}">>>> }
MakeChildren ==
    { <<>>,
      <<"@", "m", "{", "b", ",", "}", NL>> }

InitMake ==
    /\ project \in MakeProjects
    /\ parent_bib \in MakeParents
    /\ child_file \in MakeChildren
    /\ runs = 0
    /\ mpc = "idle"
    /\ tex_idx = 1 /\ pending = <<>> /\ cites = {} /\ warnings = 0 /\ cpc = "idle"
    /\ entries = {} /\ required0 = {} /\ added_entries = {} /\ child_bib = <<>>
    /\ pos = 1 /\ line = <<>> /\ spc = "idle"
    /\ IdleRest

NextMake == MakeStep \/ CitesStep \/ StripStep

SpecMake == InitMake /\ [][NextMake]_vars

\* _printer alone, on every list of items and header within the bounds
InitPrinter ==
    /\ things \in SeqsUpTo(ItemSet, MaxThings)
    /\ msg \in SeqsUpTo(MsgChars, MaxMsg)
    /\ out = <<>>
    /\ ppc = "call"
    /\ IdleStrip /\ IdleCites /\ IdleMake
    /\ IdleNick /\ IdleLookup /\ IdleNotes

NextPrinter == PrinterCall

SpecPrinter == InitPrinter /\ [][NextPrinter]_vars

\* filename_to_bibnick alone, on every filename within the bounds
InitNick ==
    /\ filename \in SeqsUpTo(NameChars, MaxName)
    /\ bibnick = <<>>
    /\ npc = "call"
    /\ IdleStrip /\ IdleCites /\ IdleMake
    /\ IdlePrinter /\ IdleLookup /\ IdleNotes

NextNick == NickCall

SpecNick == InitNick /\ [][NextNick]_vars

\* one lookup on every bibliography within the bounds
InitLookup ==
    /\ db \in Databases
    /\ l_nick = "k1"
    /\ l_what = <<>>
    /\ many_result = NoFields
    /\ one_result = NoneValue
    /\ lpc = "call"
    /\ IdleStrip /\ IdleCites /\ IdleMake
    /\ IdlePrinter /\ IdleNick /\ IdleNotes

NextLookup == LookupManyCall \/ LookupCall

SpecLookup == InitLookup /\ [][NextLookup]_vars

\* note operations in any order, the user saving from the editor in between
InitNotes ==
    /\ notes = [n \in Nicks |-> Absent]
    /\ env \in [gui : BOOLEAN, editor : BOOLEAN]
    /\ nlog = [op |-> "none", nick |-> "k1", cmd |-> "none"]
    /\ db \in NoteDatabases
    /\ l_nick = "k1"
    /\ l_what = <<>>
    /\ many_result = NoFields
    /\ one_result = NoneValue
    /\ lpc = "idle"
    /\ IdleStrip /\ IdleCites /\ IdleMake
    /\ IdlePrinter /\ IdleNick

NextNotes == EditNotes \/ EditorSave

SpecNotes == InitNotes /\ [][NextNotes]_vars

-----------------------------------------------------------------------------
(* Properties of bib_strip *)

\* the first non-whitespace character of a line is c
FirstCharIs(l, c) ==
    \E i \in 1..Len(l) : l[i] = c /\ \A j \in 1..(i - 1) : l[j] \in Whitespace

\* the least index from `from` on where l holds c, Len(l) + 1 when none
IndexFrom(l, c, from) ==
    IF \E i \in from..Len(l) : l[i] = c
    THEN CHOOSE i \in from..Len(l) : l[i] = c /\ \A j \in from..(i - 1) : l[j] # c
    ELSE Len(l) + 1

\* the text between the first '{' and the following ',', trimmed
BlockKey(l) ==
    LET open == IndexFrom(l, "{", 1)
        comma == IndexFrom(l, ",", open + 1)
    IN StripWs(SubSeq(l, open + 1, comma - 1))

\* the lines of the parent starting with '@', and those having key k
HeadLines(f) == {i \in 1..Len(f) : FirstCharIs(f[i], "@")}
HeadsOf(f, k) == {i \in HeadLines(f) : BlockKey(f[i]) = k}
Min(S) == CHOOSE x \in S : \A y \in S : x <= y

\* every line starting with '@' contains a '{'
AllHeadsBraced(f) == \A i \in HeadLines(f) : \E j \in 1..Len(f[i]) : f[i][j] = "{"

\* the lines f[from..to] without those whose first non-whitespace character is '#'
RECURSIVE KeptText(_, _, _)
KeptText(f, from, to) ==
    IF from > to THEN <<>>
    ELSE (IF FirstCharIs(f[from], "#") THEN <<>> ELSE f[from]) \o KeptText(f, from + 1, to)

\* the index of the next '@' line after line i, Len(f) + 1 at end of file
NextHead(f, i) ==
    IF \E j \in HeadLines(f) : j > i THEN Min({j \in HeadLines(f) : j > i}) ELSE Len(f) + 1

\* C3's reading of a block: the head line, the lines up to the next '@' line
\* or the end of the file without the '#' lines, then one blank line
BlockToNextHead(f, i) == f[i] \o KeptText(f, i + 1, NextHead(f, i) - 1) \o <<NL>>

\* the heads bib_strip matches: the first line of each required key, in file order
MatchedHeads(f, R) == {i \in HeadLines(f) : BlockKey(f[i]) \in R /\ i = Min(HeadsOf(f, BlockKey(f[i])))}

RECURSIVE BlocksFrom(_, _, _)
BlocksFrom(f, R, i) ==
    IF i > Len(f) THEN <<>>
    ELSE (IF i \in MatchedHeads(f, R) THEN BlockToNextHead(f, i) ELSE <<>>) \o BlocksFrom(f, R, i + 1)

\* C1: at every point of a bib_strip call, and so when it returns, the added
\* set and the remaining (missing) set partition the required set it was given:
\* their union is the original set and they share no key.
C1_Partition ==
    spc \in {"outer", "inner", "done", "error"} =>
        /\ added_entries \cup entries = required0
        /\ added_entries \cap entries = {}

\* a call that returns with one key added and two missing, or two and one
C1_Witness ==
    /\ spc = "done"
    /\ added_entries # {}
    /\ entries # {}
    /\ Cardinality(required0) = 3

\* a text without its blank (whitespace-only) lines
RECURSIVE DropBlank(_)
DropBlank(ls) ==
    IF ls = <<>> THEN <<>>
    ELSE (IF StripWs(Head(ls)) = <<>> THEN <<>> ELSE Head(ls)) \o DropBlank(Tail(ls))
NonBlank(text) == DropBlank(LinesOf(text))

\* C3: when bib_strip returns, the text it returns is, for each matched key in
\* file order, the head line followed by every line up to the next '@' line
\* or the end of the file, '#' lines left out, each kept line as in the
\* parent. The two texts are compared with their blank lines left aside, so
\* that only a lost or altered line of an entry tells them apart, not the
\* spacing between blocks: what is checked follows from the statement.
C3_BlockToNextHead ==
    spc = "done" =>
        NonBlank(child_bib) = NonBlank(BlocksFrom(parent_bib, required0, 1))

\* the returned text as lines, its '@' lines with key k, and the block one starts
ChildLines == LinesOf(child_bib)
ChildHeadsOf(k) == HeadsOf(ChildLines, k)
ChildBlock(i) ==
    Concat(SubSeq(ChildLines, i, NextHead(ChildLines, i) - 1))
IsFirstOccurrence(f, k, text) ==
    LET first == Min(HeadsOf(f, k))
    IN \E n \in 0..(NextHead(f, first) - 1 - first) :
          text = f[first] \o KeptText(f, first + 1, first + n) \o <<NL>>

\* C4: when a required key heads two or more '@' blocks of the parent, the
\* returned text holds exactly one '@' line with that key, and the block it
\* starts is the first occurrence's: its head line followed by the first
\* lines after it ('#' lines left out) and the closing blank line.
C4_FirstOccurrenceOnly ==
    spc = "done" =>
        \A k \in required0 :
            Cardinality(HeadsOf(parent_bib, k)) >= 2 =>
                /\ Cardinality(ChildHeadsOf(k)) = 1
                /\ IsFirstOccurrence(parent_bib, k, ChildBlock(Min(ChildHeadsOf(k))))

\* key a heads two blocks with different head lines, the first one holding
\* a further line, and a was required
C4_Witness ==
    /\ spc = "done"
    /\ Cardinality(HeadsOf(parent_bib, KeyA)) = 2
    /\ KeyA \in added_entries
    /\ parent_bib[1] # parent_bib[Len(parent_bib)]
    /\ ~FirstCharIs(parent_bib[2], "@")

-----------------------------------------------------------------------------
(* Properties of make *)

\* C2: when make runs again on the same project, parent and child, the text
\* the second run is about to append to the child is empty.
C2_SecondRunAppendsNothing ==
    (mpc = "strip" /\ spc = "done" /\ runs >= 1) => child_bib = <<>>

-----------------------------------------------------------------------------
(* Properties of latex_cites *)

\* C5: whenever the scan meets a citation command with empty braces, it
\* counts one warning, adds no key (so no empty-string key) to cites, does
\* not fail, and goes on with the matches that follow.
C5_EmptyCiteWarnsOnly ==
    [][(cpc = "matches" /\ pending # <<>> /\ Head(pending) = <<>>) =>
          /\ warnings' = warnings + 1
          /\ cites' = cites
          /\ pending' = Tail(pending)
          /\ cpc' = "matches"]_vars

\* an empty command in the first file, a key found in the second
C5_Witness ==
    /\ cpc = "done"
    /\ Len(project) = 2
    /\ project[1] = <<Cite, "{", "}">>
    /\ warnings = 1
    /\ cites = {<<"a">>}
-----------------------------------------------------------------------------
(* Properties of _printer *)

\* x comes strictly before y in lexicographic order of code points
LexBefore(x, y) ==
    \E k \in 1..Len(y) :
        /\ Len(x) >= k - 1
        /\ \A j \in 1..(k - 1) : x[j] = y[j]
        /\ (Len(x) = k - 1 \/ CharCode(x[k]) < CharCode(y[k]))

\* the number a run of decimal digits writes, -1 when it is no such run
DigitValue(c) == IF \E d \in 1..10 : Digits[d] = c
                 THEN (CHOOSE d \in 1..10 : Digits[d] = c) - 1 ELSE -1
RECURSIVE NumberOf(_, _)
NumberOf(ds, acc) ==
    IF ds = <<>> THEN acc
    ELSE IF DigitValue(Head(ds)) < 0 THEN -1
    ELSE NumberOf(Tail(ds), 10 * acc + DigitValue(Head(ds)))

Occurrences(seq, x) == Cardinality({i \in 1..Len(seq) : seq[i] = x})

\* the lines of the report after the header and the underline
ReportLines == LinesOf(SubSeq(out, 2 * Len(msg) + 3, Len(out)))
\* the number and the item of report line l: "<number>. <item>\n"
LineNumber(l) == IF IndexFrom(l, ".", 1) > 1
                 THEN NumberOf(SubSeq(l, 1, IndexFrom(l, ".", 1) - 1), 0) ELSE -1
LineItem(l) == SubSeq(l, IndexFrom(l, ".", 1) + 2, Len(l) - 1)

\* C6: _printer returns the empty string for no items; for N > 0 items it
\* returns the header msg and a line break, a line of as many '=' as msg is
\* long, then exactly N lines "i. item", numbered 1..N, whose items are the
\* given ones in ascending lexicographic order.
C6_ReportLayout ==
    ppc = "done" =>
        IF Len(things) = 0 THEN out = <<>>
        ELSE LET h == Len(msg) IN
             /\ Len(out) >= 2 * h + 2
             /\ SubSeq(out, 1, h) = msg
             /\ out[h + 1] = NL
             /\ \A i \in (h + 2)..(2 * h + 1) : out[i] = "="
             /\ out[2 * h + 2] = NL
             /\ Len(ReportLines) = Len(things)
             /\ \A i \in 1..Len(ReportLines) :
                   LET l == ReportLines[i] IN
                   /\ LineNumber(l) = i
                   /\ l[IndexFrom(l, ".", 1) + 1] = " "
                   /\ l[Len(l)] = NL
                   /\ Occurrences(things, LineItem(l)) =
                        Cardinality({j \in 1..Len(ReportLines) :
                                        LineItem(ReportLines[j]) = LineItem(l)})
             /\ \A i \in 1..Len(ReportLines), j \in 1..Len(ReportLines) :
                   i < j => ~LexBefore(LineItem(ReportLines[j]), LineItem(ReportLines[i]))

\* three items given out of order, under a header holding a line break
C6_Witness ==
    /\ ppc = "done"
    /\ things = << <<"b">>, <<"a", "b">>, <<"B">> >>
    /\ msg = <<NL, "m">>
    /\ out # <<>>

-----------------------------------------------------------------------------
(* Properties of filename_to_bibnick *)

\* the pairs of a '[' and a later ']' of the filename
BracketPairs(f) == {p \in (1..Len(f)) \X (1..Len(f)) : p[1] < p[2] /\ f[p[1]] = "[" /\ f[p[2]] = "]"}
\* those with at least one character, and no line break, in between
FilledPairs(f) == {p \in BracketPairs(f) : p[2] >= p[1] + 2 /\ \A k \in (p[1] + 1)..(p[2] - 1) : f[k] # NL}

\* C7 as stated: the content of a bracketed substring of the filename when
\* the filename holds one, the whole filename otherwise.
C7_BracketContentOrWhole ==
    npc = "done" =>
        IF BracketPairs(filename) # {}
        THEN \E p \in BracketPairs(filename) : bibnick = SubSeq(filename, p[1] + 1, p[2] - 1)
        ELSE bibnick = filename

\* C7 as amended: when the filename holds a '[' followed, after at least one
\* character and with no line break in between, by a ']', the result is the
\* text from the first such '[' to the last ']' it pairs with, brackets
\* excluded; otherwise it is the whole filename.
C7_FilledBracketContentOrWhole ==
    npc = "done" =>
        IF FilledPairs(filename) # {}
        THEN LET first == Min({p[1] : p \in FilledPairs(filename)})
                 last == CHOOSE j \in 1..Len(filename) :
                            /\ <<first, j>> \in FilledPairs(filename)
                            /\ \A p \in FilledPairs(filename) : p[1] = first => p[2] <= j
             IN bibnick = SubSeq(filename, first + 1, last - 1)
        ELSE bibnick = filename

\* a key in brackets with two closing brackets after it
C7_Witness ==
    /\ npc = "done"
    /\ filename = <<"[", "x", "]", "]">>
    /\ bibnick = <<"x", "]">>

-----------------------------------------------------------------------------
(* Properties of bib_lookup and bib_lookup_many *)

Range(seq) == {seq[i] : i \in 1..Len(seq)}
FieldAbsent(d, n, w) == n \notin DOMAIN d \/ w \notin DOMAIN d[n]

\* C8: bib_lookup_many returns a mapping whose keys are exactly the requested
\* fields, with the empty string for each field absent from the entry or
\* whose entry is absent; bib_lookup returns None for such a field.
C8_AbsentFields ==
    /\ lpc = "many" =>
          /\ DOMAIN many_result = Range(l_what)
          /\ \A w \in Range(l_what) : FieldAbsent(db, l_nick, w) => many_result[w] = <<>>
    /\ lpc = "one" =>
          (FieldAbsent(db, l_nick, l_what[1]) => one_result = NoneValue)

\* an entry with a title and no year, asked for both
C8_Witness ==
    /\ lpc = "many"
    /\ l_nick \in DOMAIN db
    /\ DOMAIN db[l_nick] = {"title"}
    /\ l_what = <<"year", "title">>
    /\ many_result["year"] = <<>>
    /\ many_result["title"] # <<>>

-----------------------------------------------------------------------------
(* Properties of edit_notes *)

\* C9: a note operation writes the notes file of its key only when the file
\* is absent, and then from the template; when the file exists it leaves
\* every notes file as it is.
C9_NotesNeverOverwritten ==
    [][nlog'.op = "edit_notes" =>
          LET n == nlog'.nick IN
          IF notes[n] # Absent THEN notes' = notes
          ELSE notes' = [notes EXCEPT ![n] = TemplateFor(db, n)]]_vars

\* a later note operation on a key whose file the user has rewritten
C9_Witness ==
    /\ nlog.op = "edit_notes"
    /\ notes[nlog.nick].kind = "user"

=============================================================================
